---- MODULE Spec2Model ----
(***************************************************************************)
(* Model of useExpenses (src/app/(admin)/expenses/_hooks/use-expenses.ts). *)
(*                                                                         *)
(* The hook exposes five action functions.  Four of them (create, update,  *)
(* delete, import) wrap an RTK-Query mutation trigger in runAndHandleError *)
(* and hand the resulting promise to sonner's toast.promise; the fifth     *)
(* (onDownloadTemplate) drives a loading toast by hand around a lazy-query *)
(* trigger and a sequence of DOM calls that save the downloaded blob.      *)
(*                                                                         *)
(* Every call of an action function is one entry of `calls`.  JavaScript   *)
(* runs each synchronous stretch of a function to completion, so a call    *)
(* advances in these steps:                                                *)
(*   - the action function itself, up to its first suspension point;       *)
(*   - RequestSettle: the network answers, the trigger's promise settles   *)
(*     (and, for mutations, the wrapped promise with it);                  *)
(*   - ToastReact: the reaction toast.promise attached to the promise;     *)
(*   - CallerResume: the continuation of `return await promise`;           *)
(*   - DownloadResume: the continuation of onDownloadTemplate after        *)
(*     `await downloadTemplate().unwrap()` (rest of try, or catch).        *)
(* Several calls may be in flight at once and settle in any order.         *)
(***************************************************************************)
EXTENDS Integers, Sequences, FiniteSets, TLC

\* ------------------------------------------------------------------ bounds
\* Number of action calls made in one run.
MaxCalls == 2

\* ------------------------------------------------------------------ inputs
\* CreateHotelExpenseDto / UpdateHotelExpenseDto payloads (opaque).
CreateDtos == {"createDto"}
UpdateDtos == {"updateDto"}
\* Expense ids.
ExpenseIds == {"e1"}
\* Arrays of ids handed to onDeleteExpenses (order matters).
IdLists == {<<"e2", "e1", "e3">>}
\* Files handed to onImportExpenses.
Files == {"gastos.xlsx"}
\* Argument lists of onImportExpenses: continueOnError given or omitted.
ImportArgLists ==
    {[file |-> f] : f \in Files}
        \cup {[file |-> f, continueOnError |-> TRUE] : f \in Files}

\* Bodies the server answers create / update / delete with.
Responses ==
    {[data |-> "row1", message |-> "Registro guardado"],
     [data |-> "row2"]}
\* Bodies the server answers an import with: `message` may be present,
\* empty or missing.
ImportResponses ==
    {[data |-> [successful |-> "3"], message |-> "3 gastos importados"],
     [data |-> [successful |-> "2"], message |-> ""],
     [data |-> [successful |-> "0"]]}
\* The blob the template endpoint answers with.
Blobs == {[type |-> "xlsx", name |-> "plantilla"]}
\* Errors the unwrap() of a mutation trigger rejects with.
MutationErrors ==
    {[status |-> "400", message |-> "Monto requerido"]}
\* Errors the unwrap() of the template query rejects with.  A transport
\* failure is a plain object ({status, error}) without a `message` property.
DownloadErrors ==
    {[status |-> "404", message |-> "Plantilla no encontrada"],
     [status |-> "FETCH_ERROR"]}
\* Error thrown by a DOM / URL call of the save sequence.
DomError == [name |-> "TypeError", message |-> "save failed"]

\* ------------------------------------------------------------ toast texts
CreateLoading == "Creando gasto..."
CreateSuccess == "Gasto creado con éxito"
UpdateLoading == "Actualizando gasto..."
UpdateSuccess == "Gasto actualizado exitosamente"
DeleteLoading == "Eliminando gastos..."
DeleteSuccess == "Gastos eliminados con éxito"
ImportLoading == "Importando gastos..."
ImportDefaultSuccess == "Importación completada con éxito"
DownloadLoading == "Descargando plantilla..."
DownloadSuccess == "Plantilla descargada con éxito"
DownloadErrorPrefix == "Error al descargar: "

MutationKinds == {"create", "update", "delete", "import"}

\* ------------------------------------------------------- JavaScript values
\* The value of reading property `message` of an object: the marker
\* Undefined when the object has no such property.
Undefined == "<undefined>"
MessageOf(obj) == IF "message" \in DOMAIN obj THEN obj.message ELSE Undefined
\* JavaScript truthiness of a string-or-undefined value.
Falsy(v) == v = Undefined \/ v = ""
\* String conversion inside a template literal.
TemplateString(v) == IF v = Undefined THEN "undefined" ELSE v

\* ------------------------------------------------------------------- state
VARIABLES
    calls,          \* one record per action call made so far, in call order
    requests,       \* every trigger invocation: [call, endpoint, arg]
    toasts,         \* toast id -> sequence of what that toast has displayed
    toastsCounter,  \* sonner's id counter
    objectURLs,     \* object URLs created and not revoked (by creating call)
    attached        \* anchors attached to document.body (by creating call)

vars == <<calls, requests, toasts, toastsCounter, objectURLs, attached>>

Pending == [state |-> "pending"]
Fulfilled(v) == [state |-> "fulfilled", value |-> v]
Rejected(e) == [state |-> "rejected", reason |-> e]
NoPromise == [state |-> "none"]

\* ------------------------------------------------------------ sonner model
\* toast.loading / the loading toast of toast.promise: a new toast with a
\* fresh id, which is returned.
NewToast(ts, id, type, message) ==
    ts @@ (id :> << [type |-> type, message |-> message] >>)
\* toast.success / toast.error with {id}: the toast with that id is updated
\* in place; an unknown id makes a new toast.
UpdateToast(ts, id, type, message) ==
    IF id \in DOMAIN ts
        THEN [ts EXCEPT ![id] = Append(@, [type |-> type, message |-> message])]
        ELSE NewToast(ts, id, type, message)

\* -------------------------------------------------- argument construction
\* createExpense(data)
CreateArg(data) == data
\* updateExpense({ id, body: data })
UpdateArg(id, data) == [id |-> id, body |-> data]
\* const deleteDto = { ids }
DeleteArg_reversed(ids) ==
    [ids |-> [i \in 1..Len(ids) |-> ids[Len(ids) + 1 - i]]]
DeleteArg(ids) == [ids |-> ids]
\* continueOnError: boolean = false
ContinueOnError(args) ==
    IF "continueOnError" \in DOMAIN args THEN args.continueOnError ELSE FALSE
\* importExpenses({ file, continueOnError })
ImportArg(args) ==
    [file |-> args.file, continueOnError |-> ContinueOnError(args)]

\* One invocation of a mutation / lazy-query trigger.
Invoke_retrying(reqs, c, endpoint, arg) ==
    reqs \o << [call |-> c, endpoint |-> endpoint, arg |-> arg],
               [call |-> c, endpoint |-> endpoint, arg |-> arg] >>
Invoke(reqs, c, endpoint, arg) ==
    Append(reqs, [call |-> c, endpoint |-> endpoint, arg |-> arg])

\* ------------------------------------------------------ promise plumbing
\* The async callback given to runAndHandleError: `return response.data`
\* for create / update / delete, `return response` for import.  A rejected
\* unwrap() propagates.
CallbackResult_importData(kind, outcome) ==
    IF outcome.state = "fulfilled"
        THEN Fulfilled(outcome.value.data)
        ELSE outcome
CallbackResult(kind, outcome) ==
    IF outcome.state = "fulfilled"
        THEN IF kind = "import"
                 THEN Fulfilled(outcome.value)
                 ELSE Fulfilled(outcome.value.data)
        ELSE outcome

\* runAndHandleError (@/utils/baseQuery): runs the callback once and hands
\* its outcome on; a failure is forwarded as a rejection.
runAndHandleError(outcome) == outcome

\* toast.promise options.
LoadingText(kind) ==
    CASE kind = "create" -> CreateLoading
      [] kind = "update" -> UpdateLoading
      [] kind = "delete" -> DeleteLoading
      [] kind = "import" -> ImportLoading
\* success: a fixed string, or for import (data) => data.message || default
SuccessText_fixed(kind, data) ==
    CASE kind = "create" -> CreateSuccess
      [] kind = "update" -> UpdateSuccess
      [] kind = "delete" -> DeleteSuccess
      [] kind = "import" -> ImportDefaultSuccess
SuccessText(kind, data) ==
    CASE kind = "create" -> CreateSuccess
      [] kind = "update" -> UpdateSuccess
      [] kind = "delete" -> DeleteSuccess
      [] kind = "import" ->
            IF Falsy(MessageOf(data)) THEN ImportDefaultSuccess ELSE MessageOf(data)
\* error: (err) => err.message
ErrorText(err) == MessageOf(err)

Init ==
    /\ calls = << >>
    /\ requests = << >>
    /\ toasts = << >>
    /\ toastsCounter = 0
    /\ objectURLs = {}
    /\ attached = {}

\* ---------------------------------------------------------------- actions
\* The record of a call that has just suspended at its first await.
NewCall(kind, args, id, promise) ==
    [kind |-> kind, args |-> args,
     trigger |-> Pending,      \* trigger(...).unwrap()
     promise |-> promise,      \* const promise = runAndHandleError(...)
     toastId |-> id,           \* id of the loading toast made for this call
     toastReacted |-> FALSE,   \* the terminal toast has been issued
     ret |-> Pending,          \* the promise the action returned to its caller
     steps |-> << >>,          \* save steps performed (onDownloadTemplate)
     caught |-> << >>]         \* the error the catch block received, if any

\* A mutation action up to `await promise`: the callback starts and invokes
\* the trigger, toast.promise shows the loading toast under a fresh id.
onCreateExpense(data) ==
    /\ Len(calls) < MaxCalls
    /\ requests' = Invoke(requests, Len(calls) + 1, "createExpense", CreateArg(data))
    /\ toasts' = NewToast(toasts, toastsCounter + 1, "loading", LoadingText("create"))
    /\ toastsCounter' = toastsCounter + 1
    /\ calls' = Append(calls,
          NewCall("create", [data |-> data], toastsCounter + 1, Pending))
    /\ UNCHANGED <<objectURLs, attached>>

onUpdateExpense(id, data) ==
    /\ Len(calls) < MaxCalls
    /\ requests' = Invoke(requests, Len(calls) + 1, "updateExpense", UpdateArg(id, data))
    /\ toasts' = NewToast(toasts, toastsCounter + 1, "loading", LoadingText("update"))
    /\ toastsCounter' = toastsCounter + 1
    /\ calls' = Append(calls,
          NewCall("update", [id |-> id, data |-> data], toastsCounter + 1, Pending))
    /\ UNCHANGED <<objectURLs, attached>>

onDeleteExpenses(ids) ==
    /\ Len(calls) < MaxCalls
    /\ requests' = Invoke(requests, Len(calls) + 1, "deleteExpenses", DeleteArg(ids))
    /\ toasts' = NewToast(toasts, toastsCounter + 1, "loading", LoadingText("delete"))
    /\ toastsCounter' = toastsCounter + 1
    /\ calls' = Append(calls,
          NewCall("delete", [ids |-> ids], toastsCounter + 1, Pending))
    /\ UNCHANGED <<objectURLs, attached>>

onImportExpenses(args) ==
    /\ Len(calls) < MaxCalls
    /\ requests' = Invoke(requests, Len(calls) + 1, "importExpenses", ImportArg(args))
    /\ toasts' = NewToast(toasts, toastsCounter + 1, "loading", LoadingText("import"))
    /\ toastsCounter' = toastsCounter + 1
    /\ calls' = Append(calls, NewCall("import", args, toastsCounter + 1, Pending))
    /\ UNCHANGED <<objectURLs, attached>>

\* onDownloadTemplate up to `await downloadTemplate().unwrap()`:
\* toast.loading gives the toast id, then the lazy-query trigger is invoked.
onDownloadTemplate ==
    /\ Len(calls) < MaxCalls
    /\ toasts' = NewToast(toasts, toastsCounter + 1, "loading", DownloadLoading)
    /\ toastsCounter' = toastsCounter + 1
    /\ requests' = Invoke(requests, Len(calls) + 1, "downloadTemplate", << >>)
    /\ calls' = Append(calls,
          NewCall("download", << >>, toastsCounter + 1, NoPromise))
    /\ UNCHANGED <<objectURLs, attached>>

\* What the server (or the transport) may answer a call's request with.
Outcomes(kind) ==
    CASE kind = "download" ->
            {Fulfilled(b) : b \in Blobs} \cup {Rejected(e) : e \in DownloadErrors}
      [] kind = "import" ->
            {Fulfilled(r) : r \in ImportResponses}
                \cup {Rejected(e) : e \in MutationErrors}
      [] OTHER ->
            {Fulfilled(r) : r \in Responses} \cup {Rejected(e) : e \in MutationErrors}

\* The request of call c settles.  For a mutation the callback then returns
\* (or throws) and the promise made by runAndHandleError settles with it.
RequestSettle(c, outcome) ==
    /\ c \in 1..Len(calls)
    /\ calls[c].trigger.state = "pending"
    /\ outcome \in Outcomes(calls[c].kind)
    /\ calls' = [calls EXCEPT
          ![c].trigger = outcome,
          ![c].promise =
              IF calls[c].kind \in MutationKinds
                  THEN runAndHandleError(CallbackResult(calls[c].kind, outcome))
                  ELSE @]
    /\ UNCHANGED <<requests, toasts, toastsCounter, objectURLs, attached>>

\* The terminal toast toast.promise shows for a settled promise.
TerminalToast_alwaysSuccess(kind, promise) ==
    [type |-> "success",
     message |-> SuccessText(kind, IF promise.state = "fulfilled"
                                       THEN promise.value ELSE << >>)]
TerminalToast(kind, promise) ==
    IF promise.state = "fulfilled"
        THEN [type |-> "success", message |-> SuccessText(kind, promise.value)]
        ELSE [type |-> "error", message |-> ErrorText(promise.reason)]

\* The reaction toast.promise attached to the promise of call c.
ToastReact(c) ==
    /\ c \in 1..Len(calls)
    /\ calls[c].kind \in MutationKinds
    /\ calls[c].promise.state # "pending"
    /\ ~calls[c].toastReacted
    /\ LET t == TerminalToast(calls[c].kind, calls[c].promise)
       IN  toasts' = UpdateToast(toasts, calls[c].toastId, t.type, t.message)
    /\ calls' = [calls EXCEPT ![c].toastReacted = TRUE]
    /\ UNCHANGED <<requests, toastsCounter, objectURLs, attached>>

\* `return await promise`: the action's own promise settles as `promise` did.
AwaitResult_swallow(promise) ==
    IF promise.state = "rejected" THEN Fulfilled(Undefined) ELSE promise
AwaitResult(promise) == promise

CallerResume(c) ==
    /\ c \in 1..Len(calls)
    /\ calls[c].kind \in MutationKinds
    /\ calls[c].promise.state # "pending"
    /\ calls[c].ret.state = "pending"
    /\ calls' = [calls EXCEPT ![c].ret = AwaitResult(calls[c].promise)]
    /\ UNCHANGED <<requests, toasts, toastsCounter, objectURLs, attached>>

\* The platform calls of the save sequence, in program order (lines 150-157).
SaveSteps ==
    << "createObjectURL", "createElement", "appendChild", "click",
       "revokeObjectURL", "remove" >>

\* The save steps that may throw: createObjectURL (TypeError when handed no
\* Blob), appendChild (document.body missing, or a hierarchy error) and
\* click (which dispatches the event synchronously).  createElement("a"),
\* revokeObjectURL and remove() do not throw.
CanThrow == {"createObjectURL", "appendChild", "click"}

\* The effect of one save step of call c on the document and the URL store.
StepEffect(step, c, dom) ==
    CASE step = "createObjectURL" -> [dom EXCEPT !.urls = @ \cup {c}]
      [] step = "appendChild"     -> [dom EXCEPT !.anchors = @ \cup {c}]
      [] step = "revokeObjectURL" -> [dom EXCEPT !.urls = @ \ {c}]
      [] step = "remove"          -> [dom EXCEPT !.anchors = @ \ {c}]
      [] OTHER                    -> dom

RECURSIVE RunSteps(_, _, _)
RunSteps(steps, c, dom) ==
    IF steps = << >>
        THEN dom
        ELSE RunSteps(Tail(steps), c, StepEffect(Head(steps), c, dom))

\* The toast onDownloadTemplate updates: the id toast.loading returned to
\* this very call.
OwnToastId_latest(c) == toastsCounter
OwnToastId(c) == calls[c].toastId

\* catch (error): toast.error(`Error al descargar: ${error.message}`, ...)
DownloadErrorText_plain(error) == DownloadErrorPrefix
DownloadErrorText(error) ==
    DownloadErrorPrefix \o TemplateString(MessageOf(error))

\* The continuation of onDownloadTemplate once the request has settled.
\* throwAt = 0: no save step throws; throwAt = k: SaveSteps[k] throws
\* (without effect) and control passes to the catch block.
DownloadResume(c, throwAt) ==
    /\ c \in 1..Len(calls)
    /\ calls[c].kind = "download"
    /\ calls[c].trigger.state # "pending"
    /\ calls[c].ret.state = "pending"
    /\ throwAt \in 0..Len(SaveSteps)
    /\ throwAt # 0 => SaveSteps[throwAt] \in CanThrow
    /\ calls[c].trigger.state = "rejected" => throwAt = 0
    /\ LET ok == calls[c].trigger.state = "fulfilled"
           done == IF ~ok THEN << >>
                   ELSE IF throwAt = 0 THEN SaveSteps
                   ELSE SubSeq(SaveSteps, 1, throwAt - 1)
           dom == RunSteps(done, c, [urls |-> objectURLs, anchors |-> attached])
           success == ok /\ throwAt = 0
           error == IF ok THEN DomError ELSE calls[c].trigger.reason
       IN  /\ objectURLs' = dom.urls
           /\ attached' = dom.anchors
           /\ toasts' =
                IF success
                    THEN UpdateToast(toasts, OwnToastId(c), "success", DownloadSuccess)
                    ELSE UpdateToast(toasts, OwnToastId(c), "error",
                                     DownloadErrorText(error))
           /\ calls' = [calls EXCEPT
                 ![c].steps = IF success THEN done \o << "toast.success" >>
                              ELSE done \o << "toast.error" >>,
                 ![c].caught = IF success THEN << >> ELSE << error >>,
                 ![c].toastReacted = TRUE,
                 ![c].ret = Fulfilled(success)]
    /\ UNCHANGED <<requests, toastsCounter>>

Next ==
    \/ \E data \in CreateDtos : onCreateExpense(data)
    \/ \E id \in ExpenseIds, data \in UpdateDtos : onUpdateExpense(id, data)
    \/ \E ids \in IdLists : onDeleteExpenses(ids)
    \/ \E args \in ImportArgLists : onImportExpenses(args)
    \/ onDownloadTemplate
    \/ \E c \in 1..Len(calls) :
          \E outcome \in Outcomes(calls[c].kind) : RequestSettle(c, outcome)
    \/ \E c \in 1..Len(calls) : ToastReact(c)
    \/ \E c \in 1..Len(calls) : CallerResume(c)
    \/ \E c \in 1..Len(calls) : \E throwAt \in 0..Len(SaveSteps) :
          DownloadResume(c, throwAt)

Spec == Init /\ [][Next]_vars

\* ------------------------------------------------------------ properties
CallIds == 1..Len(calls)
MutationCalls == {c \in CallIds : calls[c].kind \in MutationKinds}
DownloadCalls == {c \in CallIds : calls[c].kind = "download"}
\* What the toast made for call c has displayed so far.
Shown(c) == toasts[calls[c].toastId]
Settled(p) == p.state \in {"fulfilled", "rejected"}
Returned(c) == Settled(calls[c].ret)
LoadingTextOf(kind) ==
    CASE kind = "create" -> "Creando gasto..."
      [] kind = "update" -> "Actualizando gasto..."
      [] kind = "delete" -> "Eliminando gastos..."
      [] kind = "import" -> "Importando gastos..."
      [] kind = "download" -> "Descargando plantilla..."

\* C1: every mutation call shows its loading toast from the moment it is
\* made (so before its request settles); nothing else is shown while the
\* request is pending; at most one terminal toast is ever shown, it is the
\* success toast iff the request fulfilled and the error toast iff it
\* rejected; and once the request has settled the terminal toast is either
\* shown or its reaction is ready to run.
C1_ToastLifecycle ==
    \A c \in MutationCalls :
        LET h == Shown(c)
            req == calls[c].trigger
        IN  /\ Len(h) \in {1, 2}
            /\ h[1] = [type |-> "loading", message |-> LoadingTextOf(calls[c].kind)]
            /\ req.state = "pending" => Len(h) = 1
            /\ Len(h) = 2 =>
                  /\ h[2].type \in {"success", "error"}
                  /\ h[2].type = "success" <=> req.state = "fulfilled"
                  /\ h[2].type = "error" <=> req.state = "rejected"
            /\ (Settled(req) /\ Len(h) = 1) => ENABLED ToastReact(c)

\* C1 witness: one call has shown loading then success, another loading
\* then error.
C1_Witness ==
    \E c, d \in MutationCalls :
        /\ Len(Shown(c)) = 2 /\ Shown(c)[2].type = "success"
        /\ Len(Shown(d)) = 2 /\ Shown(d)[2].type = "error"

\* C2: when the request of a mutation call fails, the wrapped promise is
\* rejected, the error toast shows exactly the `message` of the error that
\* promise rejected with, and the promise returned to the caller rejects
\* with that same error; it never resolves.
C2_ErrorForwarded ==
    \A c \in MutationCalls :
        calls[c].trigger.state = "rejected" =>
            /\ calls[c].promise.state = "rejected"
            /\ calls[c].toastReacted =>
                  /\ Len(Shown(c)) = 2
                  /\ Shown(c)[2].type = "error"
                  /\ Shown(c)[2].message =
                        (IF "message" \in DOMAIN calls[c].promise.reason
                             THEN calls[c].promise.reason.message
                             ELSE Undefined)
            /\ calls[c].ret.state \in {"pending", "rejected"}
            /\ calls[c].ret.state = "rejected" =>
                  calls[c].ret.reason = calls[c].promise.reason

\* C2 witness: a failed mutation whose error toast is up and whose caller
\* has received the rejection.
C2_Witness ==
    \E c \in MutationCalls :
        /\ calls[c].trigger.state = "rejected"
        /\ calls[c].toastReacted
        /\ calls[c].ret.state = "rejected"
        /\ "message" \in DOMAIN calls[c].promise.reason

\* The endpoint each action talks to.
EndpointOf(kind) ==
    CASE kind = "create" -> "createExpense"
      [] kind = "update" -> "updateExpense"
      [] kind = "delete" -> "deleteExpenses"
      [] kind = "import" -> "importExpenses"
      [] kind = "download" -> "downloadTemplate"

\* C3: no retry.  After any sequence of N action calls exactly N requests
\* have been issued, one per call and on the call's own endpoint, whether
\* the requests succeeded, failed or are still pending.
C3_OneRequestPerCall ==
    /\ Len(requests) = Len(calls)
    /\ \A c \in CallIds :
          LET mine == {i \in 1..Len(requests) : requests[i].call = c}
          IN  /\ Cardinality(mine) = 1
              /\ \A i \in mine : requests[i].endpoint = EndpointOf(calls[c].kind)

\* C3 witness: two calls made, one of them a finished failure and one of
\* them a finished download.
C3_Witness ==
    /\ Len(calls) >= 2
    /\ \E c \in MutationCalls :
          calls[c].trigger.state = "rejected" /\ Returned(c) /\ calls[c].toastReacted
    /\ \E d \in DownloadCalls : Returned(d)

\* C4: onDownloadTemplate never rejects.  Its toast is the loading toast
\* until the function resumes, which it can do as soon as the request has
\* settled; on return the same toast has been replaced exactly once: by the
\* success toast when it returns true, by the error toast carrying the
\* caught error's message when it returns false.  It returns true iff the
\* download fulfilled and every save step ran without throwing.
C4_DownloadToast ==
    \A c \in DownloadCalls :
        LET h == Shown(c)
            r == calls[c].ret
        IN  /\ r.state # "rejected"
            /\ h[1] = [type |-> "loading", message |-> "Descargando plantilla..."]
            /\ r.state = "pending" => Len(h) = 1
            /\ (Settled(calls[c].trigger) /\ r.state = "pending") =>
                  ENABLED (\E k \in 0..Len(SaveSteps) : DownloadResume(c, k))
            /\ r.state = "fulfilled" =>
                  /\ Len(h) = 2
                  /\ r.value \in BOOLEAN
                  /\ r.value =>
                        h[2] = [type |-> "success",
                                message |-> "Plantilla descargada con éxito"]
                  /\ ~r.value =>
                        /\ Len(calls[c].caught) = 1
                        /\ h[2].type = "error"
                        /\ h[2].message =
                              "Error al descargar: " \o
                                (IF "message" \in DOMAIN calls[c].caught[1]
                                     THEN calls[c].caught[1].message
                                     ELSE "undefined")
                  /\ r.value <=>
                        /\ calls[c].trigger.state = "fulfilled"
                        /\ calls[c].caught = << >>
                        /\ SubSeq(calls[c].steps, 1, Len(SaveSteps)) = SaveSteps

\* C4 witness: one download returned true, another returned false.
C4_Witness ==
    \E c, d \in DownloadCalls :
        /\ calls[c].ret = Fulfilled(TRUE)
        /\ calls[d].ret = Fulfilled(FALSE)

\* C5: the request carries the action's arguments unchanged: data for
\* create; {id, body: data} for update; {ids}, same ids in the same order,
\* for delete; {file, continueOnError} for import, continueOnError being
\* false when the caller omitted it.
C5_ArgumentsForwarded ==
    \A i \in 1..Len(requests) :
        LET c == requests[i].call
            a == calls[c].args
            sent == requests[i].arg
        IN  CASE calls[c].kind = "create" -> sent = a.data
              [] calls[c].kind = "update" ->
                    /\ DOMAIN sent = {"id", "body"}
                    /\ sent.id = a.id
                    /\ sent.body = a.data
              [] calls[c].kind = "delete" ->
                    /\ DOMAIN sent = {"ids"}
                    /\ Len(sent.ids) = Len(a.ids)
                    /\ \A k \in 1..Len(a.ids) : sent.ids[k] = a.ids[k]
              [] calls[c].kind = "import" ->
                    /\ DOMAIN sent = {"file", "continueOnError"}
                    /\ sent.file = a.file
                    /\ "continueOnError" \in DOMAIN a =>
                          sent.continueOnError = a.continueOnError
                    /\ "continueOnError" \notin DOMAIN a =>
                          sent.continueOnError = FALSE
              [] OTHER -> TRUE

\* C5 witness: a delete of several ids and an import without continueOnError
\* have both been sent.
C5_Witness ==
    /\ \E c \in CallIds : calls[c].kind = "delete" /\ Len(calls[c].args.ids) >= 2
    /\ \E c \in CallIds :
          calls[c].kind = "import" /\ "continueOnError" \notin DOMAIN calls[c].args

FixedSuccessText(kind) ==
    CASE kind = "create" -> "Gasto creado con éxito"
      [] kind = "update" -> "Gasto actualizado exitosamente"
      [] kind = "delete" -> "Gastos eliminados con éxito"

\* C6: the success toast of an import shows the response's message when
\* that is non-empty and "Importación completada con éxito" when it is
\* missing or empty; the success toasts of create, update and delete show
\* their fixed text whatever the response was.
C6_SuccessText ==
    \A c \in MutationCalls :
        (calls[c].toastReacted /\ calls[c].trigger.state = "fulfilled") =>
            LET resp == calls[c].trigger.value
                text == Shown(c)[Len(Shown(c))].message
            IN  IF calls[c].kind = "import"
                    THEN IF "message" \in DOMAIN resp /\ resp.message # ""
                             THEN text = resp.message
                             ELSE text = "Importación completada con éxito"
                    ELSE text = FixedSuccessText(calls[c].kind)

\* C6 witness: an import whose response carried a message and one whose
\* response carried none (or an empty one) have both shown their success
\* toast.
C6_Witness ==
    /\ \E c \in MutationCalls :
          /\ calls[c].kind = "import" /\ calls[c].toastReacted
          /\ calls[c].trigger.state = "fulfilled"
          /\ "message" \in DOMAIN calls[c].trigger.value
          /\ calls[c].trigger.value.message # ""
    /\ \E c \in MutationCalls :
          /\ calls[c].kind = "import" /\ calls[c].toastReacted
          /\ calls[c].trigger.state = "fulfilled"
          /\ Falsy(MessageOf(calls[c].trigger.value))

\* Whether call c, taken alone, succeeded.
OwnSuccess(c) ==
    /\ calls[c].trigger.state = "fulfilled"
    /\ calls[c].caught = << >>

\* C7: with calls overlapping and settling in any order, every call owns
\* one toast (no two calls share an id, no toast belongs to no call); the
\* toast of a call has been replaced exactly once when the call has issued
\* its terminal toast and not at all before, so none is left loading and
\* none is resolved twice; and the terminal toast and the returned outcome
\* of a call reflect that call's own request alone.
C7_CallsIndependent ==
    /\ \A c, d \in CallIds : c # d => calls[c].toastId # calls[d].toastId
    /\ DOMAIN toasts = {calls[c].toastId : c \in CallIds}
    /\ \A c \in CallIds :
          /\ Len(Shown(c)) = (IF calls[c].toastReacted THEN 2 ELSE 1)
          /\ calls[c].toastReacted =>
                (Shown(c)[2].type = "success" <=> OwnSuccess(c))
          /\ Returned(c) =>
                IF calls[c].kind = "download"
                    THEN calls[c].ret.state = "fulfilled"
                         /\ (calls[c].ret.value <=> OwnSuccess(c))
                    ELSE calls[c].ret.state = "fulfilled" <=> OwnSuccess(c)

\* C7 witness: two downloads overlap, and the later one has finished with a
\* failure while the earlier one is still waiting for its request.
C7_Witness ==
    \E c, d \in DownloadCalls :
        /\ c < d
        /\ calls[c].trigger.state = "pending"
        /\ Returned(d) /\ calls[d].toastReacted /\ ~OwnSuccess(d)

\* The order of the save steps followed by the success toast.
SaveOrder ==
    << "createObjectURL", "createElement", "appendChild", "click",
       "revokeObjectURL", "remove", "toast.success" >>

\* C8: the save steps of onDownloadTemplate run in the order create URL,
\* create and attach anchor, click, revoke URL, remove anchor, success
\* toast; and whenever onDownloadTemplate has returned, true or false, no
\* anchor it attached is still attached and no object URL it created is
\* still unrevoked.
C8_SaveOrderAndCleanup ==
    \A c \in DownloadCalls :
        /\ calls[c].ret = Fulfilled(TRUE) => calls[c].steps = SaveOrder
        /\ Returned(c) => (c \notin attached /\ c \notin objectURLs)

\* C9: toast and caller observe the same promise: once both have acted, the
\* toast shows success iff the caller's promise resolved.  A resolved create,
\* update or delete yields the response's data field, a resolved import the
\* whole response.
C9_SamePromise ==
    \A c \in MutationCalls :
        /\ (calls[c].toastReacted /\ Returned(c)) =>
              (Shown(c)[2].type = "success" <=> calls[c].ret.state = "fulfilled")
        /\ calls[c].ret.state = "fulfilled" =>
              /\ calls[c].trigger.state = "fulfilled"
              /\ IF calls[c].kind = "import"
                     THEN calls[c].ret.value = calls[c].trigger.value
                     ELSE calls[c].ret.value = calls[c].trigger.value.data

\* C9 witness: an import and another mutation have both resolved, with
\* their success toasts shown.
C9_Witness ==
    /\ \E c \in MutationCalls :
          calls[c].kind = "import" /\ calls[c].ret.state = "fulfilled"
          /\ calls[c].toastReacted
    /\ \E c \in MutationCalls :
          calls[c].kind # "import" /\ calls[c].ret.state = "fulfilled"
          /\ calls[c].toastReacted

====
